---- MODULE Spec2Model ----
(***************************************************************************)
(* A model of the PPM inverter: the PPM class of src/PPM.hpp (read_ppm,    *)
(* PPM::invert, PPM::out_ppm) and the driver main of src/invert.cpp.       *)
(*                                                                         *)
(* Streams are sequences of bytes (0..255).  Formatted extraction          *)
(* (operator>>), istream::ignore, istream::read and the formatted          *)
(* insertion of numbers are modelled byte by byte.                         *)
(***************************************************************************)
EXTENDS Integers, Sequences, FiniteSets, TLC

VARIABLES
    rd,         \* the activation of read_ppm: its stream, position and locals
    pc,         \* the position of the caller (main, or the codec exerciser)
    ppm,        \* main's std::expected<PPM, PPM::Error>
    orig,       \* history: the image as it was before any transformation
    cout,       \* the bytes written to std::cout by out_ppm
    printed,    \* the lines written to std::cout by std::println
    status,     \* main's return value (-1 while running)
    calls       \* history: the PPM operations the caller has invoked, in order

vars == <<rd, pc, ppm, orig, cout, printed, status, calls>>

----------------------------------------------------------------------------
(* Program constants                                                       *)

MAX_WIDTH == 1920
MAX_HEIGHT == 1080
MAX_COLOR_VALUE == 65536

\* PPM::data_type is std::uint16_t: a stored sample is a value modulo 2^16
DataTypeModulus == 65536

\* is.ignore(255, '\n')
IgnoreCount == 255
IgnoreDelim == 10

\* std::numeric_limits<int>::max() and min() of the P3 sample variable `int v`
INT_MAX == 2147483647
INT_MIN == (-2147483647) - 1

\* the two magic tokens, "P3" and "P6", as bytes
MagicP3 == <<80, 51>>
MagicP6 == <<80, 54>>

\* PPM::Error messages
ErrMagic == "Invalid magic number from input"
ErrWidth == "Invalid width from input"
ErrHeight == "Invalid height from input"
ErrMax == "Invalid max color val from input"
ErrP3Eof == "Unexpected EOF in P3 data"
ErrP3Range == "P3 color value out of range"
ErrP6Eof8 == "Unexpected EOF in P6 data (8-bit)"
ErrP6Eof16 == "Unexpected EOF in P6 data (16-bit)"
ErrP6Range == "P6 color value out of range"

----------------------------------------------------------------------------
(* The PPM class                                                           *)

\* PPM::PPM with its default arguments: PPM img{}
DefaultPPM ==
    [m_magic |-> "P3", m_width |-> 0, m_height |-> 0, m_max |-> 0,
     m_data |-> <<>>]

\* std::expected<PPM, PPM::Error> holding a value / holding an error
Expected(img) == [has_value |-> TRUE, value |-> img]
Unexpected(msg) == [has_value |-> FALSE, error |-> msg]

\* a faulty invert: the size_t difference saturates at the largest
\* data_type value where the conversion of invert wraps
invert_saturating(img) ==
    [img EXCEPT !.m_data =
        [k \in 1..Len(img.m_data) |->
            IF img.m_max - img.m_data[k] >= DataTypeModulus
            THEN DataTypeModulus - 1
            ELSE (img.m_max - img.m_data[k]) % DataTypeModulus]]

\* PPM::invert: i = get_max() - i, the size_t difference converted back to
\* the 16-bit data_type
invert(img) ==
    [img EXCEPT !.m_data =
        [k \in 1..Len(img.m_data) |->
            (img.m_max - img.m_data[k]) % DataTypeModulus]]

\* operator<< of an unsigned integer: its decimal digits
RECURSIVE ToDec(_)
ToDec(n) ==
    IF n < 10 THEN <<48 + n>> ELSE ToDec(n \div 10) \o <<48 + (n % 10)>>

\* the three header lines out_ppm writes
out_header(img) ==
    (IF img.m_magic = "P3" THEN MagicP3 ELSE MagicP6) \o <<10>>
    \o ToDec(img.m_width) \o <<32>> \o ToDec(img.m_height) \o <<10>>
    \o ToDec(img.m_max) \o <<10>>

\* a faulty two-byte branch: the bytes of one sample, low byte first
out_sample16_le(v) == <<v % 256, (v \div 256) % 256>>

\* the two-byte branch of out_ppm: (v >> 8) & 0xFF, then v & 0xFF
out_sample16(v) == <<(v \div 256) % 256, v % 256>>

\* the one-byte branch of out_ppm: static_cast<unsigned char>(v)
out_sample8(v) == <<v % 256>>

RECURSIVE out_payload(_, _)
out_payload(data, wide) ==
    IF data = <<>> THEN <<>>
    ELSE (IF wide THEN out_sample16(Head(data)) ELSE out_sample8(Head(data)))
         \o out_payload(Tail(data), wide)

\* PPM::out_ppm: the bytes written to os
out_ppm(img) == out_header(img) \o out_payload(img.m_data, ~(img.m_max <= 255))

----------------------------------------------------------------------------
(* std::istream                                                            *)

\* std::isspace in the "C" locale
IsSpace(b) == b \in {9, 10, 11, 12, 13, 32}
IsDigit(b) == b \in 48..57

\* the sentry of a formatted input function: skip leading white space
RECURSIVE SkipWs(_, _)
SkipWs(buf, p) ==
    IF p <= Len(buf) /\ IsSpace(buf[p]) THEN SkipWs(buf, p + 1) ELSE p

RECURSIVE TokenEnd(_, _)
TokenEnd(buf, p) ==
    IF p <= Len(buf) /\ ~IsSpace(buf[p]) THEN TokenEnd(buf, p + 1) ELSE p

\* is >> std::string: the characters up to the next white space; fails
\* when none is extracted
ExtractString(buf, p) ==
    LET s == SkipWs(buf, p)
        e == TokenEnd(buf, s)
    IN  [ok |-> e > s, val |-> SubSeq(buf, s, e - 1), pos |-> e]

RECURSIVE DigitsEnd(_, _)
DigitsEnd(buf, p) ==
    IF p <= Len(buf) /\ IsDigit(buf[p]) THEN DigitsEnd(buf, p + 1) ELSE p

\* the digits buf[p..e-1] accumulated as num_get does, here as the negated
\* magnitude (so that the magnitude of INT_MIN is held too); 1 when the
\* magnitude goes beyond -low
RECURSIVE Accumulate(_, _, _, _, _)
Accumulate(buf, p, e, nacc, low) ==
    IF p >= e THEN nacc
    ELSE LET d == buf[p] - 48
         IN  IF nacc < (low + d + 9) \div 10
             THEN 1
             ELSE Accumulate(buf, p + 1, e, nacc * 10 - d, low)

\* is >> std::size_t.  num_get takes an optional sign and the digits after
\* it; no digit sets failbit.  Every bound a size_t is compared with is far
\* below INT_MAX, so a value above INT_MAX is held as INT_MAX, and so is the
\* wrapped negation of a nonzero value ("-1" reads as 2^64 - 1).
ExtractUnsigned(buf, p) ==
    LET s == SkipWs(buf, p)
        signed == s <= Len(buf) /\ buf[s] \in {43, 45}
        neg == s <= Len(buf) /\ buf[s] = 45
        d == IF signed THEN s + 1 ELSE s
        e == DigitsEnd(buf, d)
        n == Accumulate(buf, d, e, 0, 0 - INT_MAX)
    IN  [ok |-> e > d,
         val |-> IF e <= d THEN 0
                 ELSE IF n = 1 \/ (neg /\ n < 0) THEN INT_MAX
                 ELSE 0 - n,
         pos |-> e]

\* is >> int.  A value outside INT_MIN..INT_MAX sets failbit.
ExtractInt(buf, p) ==
    LET s == SkipWs(buf, p)
        signed == s <= Len(buf) /\ buf[s] \in {43, 45}
        neg == s <= Len(buf) /\ buf[s] = 45
        d == IF signed THEN s + 1 ELSE s
        e == DigitsEnd(buf, d)
        n == Accumulate(buf, d, e, 0, IF neg THEN INT_MIN ELSE 0 - INT_MAX)
    IN  [ok |-> e > d /\ n # 1,
         val |-> IF e <= d \/ n = 1 THEN 0 ELSE IF neg THEN n ELSE 0 - n,
         pos |-> e]

\* is.ignore(n, delim): characters are discarded until n are discarded,
\* the stream ends, or the next character is delim, which is discarded too
RECURSIVE Ignore(_, _, _, _)
Ignore(buf, p, n, delim) ==
    IF n = 0 \/ p > Len(buf) THEN p
    ELSE IF buf[p] = delim THEN p + 1
    ELSE Ignore(buf, p + 1, n - 1, delim)

----------------------------------------------------------------------------
(* read_ppm, one step per check and per loop iteration                     *)

\* the activation of read_ppm(is) on entry: the stream and the locals
\* m, w, h, max (value-initialised); img stands for the local constructed
\* at line 220 and is the default PPM until then
read_ppm_entry(buf) ==
    [buf |-> buf, pos |-> 1, pc |-> "magic",
     m |-> <<>>, w |-> 0, h |-> 0, max |-> 0, samples |-> 0, i |-> 0,
     img |-> DefaultPPM, err |-> ""]

\* no call of read_ppm is under way
read_ppm_idle == [read_ppm_entry(<<>>) EXCEPT !.pc = "idle"]

Fail(r, msg) == [r EXCEPT !.pc = "ret_err", !.err = msg]

\* if (!(is >> m) || (m != "P3" && m != "P6")) return unexpected
read_magic(r) ==
    LET x == ExtractString(r.buf, r.pos)
        r1 == [r EXCEPT !.pos = x.pos, !.m = x.val]
    IN  IF ~x.ok \/ (x.val # MagicP3 /\ x.val # MagicP6)
        THEN Fail(r1, ErrMagic)
        ELSE [r1 EXCEPT !.pc = "width"]

\* a faulty width check: the check without its return
read_width_no_return(r) ==
    LET x == ExtractUnsigned(r.buf, r.pos)
    IN  [r EXCEPT !.pos = x.pos, !.w = x.val, !.pc = "height"]

\* if (!(is >> w) || w > PPM::MAX_WIDTH) return unexpected
read_width(r) ==
    LET x == ExtractUnsigned(r.buf, r.pos)
        r1 == [r EXCEPT !.pos = x.pos, !.w = x.val]
    IN  IF ~x.ok \/ x.val > MAX_WIDTH
        THEN Fail(r1, ErrWidth)
        ELSE [r1 EXCEPT !.pc = "height"]

\* if (!(is >> h) || h > PPM::MAX_HEIGHT) return unexpected
read_height(r) ==
    LET x == ExtractUnsigned(r.buf, r.pos)
        r1 == [r EXCEPT !.pos = x.pos, !.h = x.val]
    IN  IF ~x.ok \/ x.val > MAX_HEIGHT
        THEN Fail(r1, ErrHeight)
        ELSE [r1 EXCEPT !.pc = "max"]

\* if (!(is >> max) || max > PPM::MAX_COLOR_VALUE) return unexpected;
\* then samples = w * h * 3, the image's header fields are set, its data
\* cleared, and the payload branch is taken on m
read_max(r) ==
    LET x == ExtractUnsigned(r.buf, r.pos)
        r1 == [r EXCEPT !.pos = x.pos, !.max = x.val]
    IN  IF ~x.ok \/ x.val > MAX_COLOR_VALUE
        THEN Fail(r1, ErrMax)
        ELSE [r1 EXCEPT
                !.samples = r.w * r.h * 3,
                !.i = 0,
                !.img = [m_magic |-> IF r.m = MagicP3 THEN "P3" ELSE "P6",
                         m_width |-> r.w, m_height |-> r.h, m_max |-> x.val,
                         m_data |-> <<>>],
                !.pc = IF r.m # MagicP6 THEN "p3" ELSE "ignore"]

\* img.push_back(static_cast<PPM::data_type>(v)); ++i
Push(r, v) ==
    [r EXCEPT !.img.m_data = Append(r.img.m_data, v % DataTypeModulus),
              !.i = r.i + 1]

\* one pass of the P3 loop: is >> v into an int, v > max compared as
\* size_t (a negative v converts to a huge value); return img after it
read_p3(r) ==
    IF ~(r.i < r.samples) THEN [r EXCEPT !.pc = "ret_ok"]
    ELSE LET x == ExtractInt(r.buf, r.pos)
             r1 == [r EXCEPT !.pos = x.pos]
         IN  IF ~x.ok THEN Fail(r1, ErrP3Eof)
             ELSE IF x.val < 0 \/ x.val > r.max THEN Fail(r1, ErrP3Range)
             ELSE Push(r1, x.val)

\* is.ignore(255, '\n'), then the branch on max
read_ignore(r) ==
    [r EXCEPT !.pos = Ignore(r.buf, r.pos, IgnoreCount, IgnoreDelim),
              !.pc = IF r.max <= 255 THEN "p6_8" ELSE "p6_16"]

\* a faulty 8-bit loop: it returns the image read so far when the stream
\* ends
read_p6_8_short(r) ==
    IF ~(r.i < r.samples) \/ r.pos > Len(r.buf) THEN [r EXCEPT !.pc = "ret_ok"]
    ELSE Push([r EXCEPT !.pos = r.pos + 1], r.buf[r.pos])

\* one pass of the 8-bit loop: is.read one byte, pushed as it is; after the
\* loop `if (max > 255)` is false and img is returned
read_p6_8(r) ==
    IF ~(r.i < r.samples) THEN [r EXCEPT !.pc = "ret_ok"]
    ELSE IF r.pos > Len(r.buf) THEN Fail(r, ErrP6Eof8)
    ELSE Push([r EXCEPT !.pos = r.pos + 1], r.buf[r.pos])

\* one pass of the 16-bit loop: two bytes, v = (hi << 8) | lo, v > max
read_p6_16(r) ==
    IF ~(r.i < r.samples) THEN [r EXCEPT !.pc = "ret_ok"]
    ELSE IF r.pos + 1 > Len(r.buf)
         THEN Fail([r EXCEPT !.pos = Len(r.buf) + 1], ErrP6Eof16)
    ELSE LET v == r.buf[r.pos] * 256 + r.buf[r.pos + 1]
             r1 == [r EXCEPT !.pos = r.pos + 2]
         IN  IF v > r.max THEN Fail(r1, ErrP6Range) ELSE Push(r1, v)

\* the value read_ppm returns
ReturnValue(r) ==
    IF r.pc = "ret_ok" THEN Expected(r.img) ELSE Unexpected(r.err)

Returned(r) == r.pc \in {"ret_ok", "ret_err"}

\* the step of read_ppm at r.pc
ReadStep(r) ==
    CASE r.pc = "magic" -> read_magic(r)
      [] r.pc = "width" -> read_width(r)
      [] r.pc = "height" -> read_height(r)
      [] r.pc = "max" -> read_max(r)
      [] r.pc = "p3" -> read_p3(r)
      [] r.pc = "ignore" -> read_ignore(r)
      [] r.pc = "p6_8" -> read_p6_8(r)
      [] r.pc = "p6_16" -> read_p6_16(r)

\* read_ppm run to its return
RECURSIVE RunReadPpm(_)
RunReadPpm(r) == IF Returned(r) THEN r ELSE RunReadPpm(ReadStep(r))

read_ppm(buf) == ReturnValue(RunReadPpm(read_ppm_entry(buf)))

Caller == <<pc, ppm, orig, cout, printed, status, calls>>

ReadMagic == rd.pc = "magic" /\ rd' = read_magic(rd) /\ UNCHANGED Caller
ReadWidth == rd.pc = "width" /\ rd' = read_width(rd) /\ UNCHANGED Caller
ReadHeight == rd.pc = "height" /\ rd' = read_height(rd) /\ UNCHANGED Caller
ReadMax == rd.pc = "max" /\ rd' = read_max(rd) /\ UNCHANGED Caller
ReadP3 == rd.pc = "p3" /\ rd' = read_p3(rd) /\ UNCHANGED Caller
ReadIgnore == rd.pc = "ignore" /\ rd' = read_ignore(rd) /\ UNCHANGED Caller
ReadP6_8 == rd.pc = "p6_8" /\ rd' = read_p6_8(rd) /\ UNCHANGED Caller
ReadP6_16 == rd.pc = "p6_16" /\ rd' = read_p6_16(rd) /\ UNCHANGED Caller

----------------------------------------------------------------------------
(* main (src/invert.cpp)                                                   *)

\* std::expected<PPM, PPM::Error> ppm = read_ppm(std::cin): the call returns
MainRead ==
    /\ pc = "read_ppm"
    /\ Returned(rd)
    /\ ppm' = ReturnValue(rd)
    /\ orig' = IF rd.pc = "ret_ok" THEN rd.img ELSE orig
    /\ pc' = "check"
    /\ UNCHANGED <<rd, cout, printed, status, calls>>

\* if (!ppm) { std::println("[ERR] {}", ppm.error().msg); return 1; }
MainError ==
    /\ pc = "check"
    /\ ~ppm.has_value
    /\ printed' = Append(printed, <<"[ERR] ", ppm.error>>)
    /\ status' = 1
    /\ pc' = "exit"
    /\ UNCHANGED <<rd, ppm, orig, cout, calls>>

\* a faulty main: it goes from the check straight to out_ppm
MainOkSkipsInvert ==
    /\ pc = "check"
    /\ ppm.has_value
    /\ pc' = "out_ppm"
    /\ UNCHANGED <<rd, ppm, orig, cout, printed, status, calls>>

\* PPM& img = *ppm
MainOk ==
    /\ pc = "check"
    /\ ppm.has_value
    /\ pc' = "invert"
    /\ UNCHANGED <<rd, ppm, orig, cout, printed, status, calls>>

\* img.invert()
MainInvert ==
    /\ pc = "invert"
    /\ ppm' = Expected(invert(ppm.value))
    /\ calls' = Append(calls, "invert")
    /\ pc' = "out_ppm"
    /\ UNCHANGED <<rd, orig, cout, printed, status>>

\* img.out_ppm(std::cout)
MainOutPpm ==
    /\ pc = "out_ppm"
    /\ cout' = cout \o out_ppm(ppm.value)
    /\ calls' = Append(calls, "out_ppm")
    /\ pc' = "return"
    /\ UNCHANGED <<rd, ppm, orig, printed, status>>

\* return 0
MainReturn ==
    /\ pc = "return"
    /\ status' = 0
    /\ pc' = "exit"
    /\ UNCHANGED <<rd, ppm, orig, cout, printed, calls>>

----------------------------------------------------------------------------
(* The inputs of main: byte streams put together from header tokens,       *)
(* separators and payloads                                                 *)

\* bounds of the model
MaxW == 1
MaxH == 1
MaxChunks == 7

\* a, b, a, b, ... : n chunks
RECURSIVE Alt(_, _, _)
Alt(a, b, n) == IF n = 0 THEN <<>> ELSE a \o Alt(b, a, n - 1)

MaxVals == {0, 100, 255, 256, 65535, MAX_COLOR_VALUE}

MagicToks == {MagicP3, MagicP6, <<80, 53>>, <<>>}
WidthToks ==
    {ToDec(n) : n \in (0..MaxW) \cup {MAX_WIDTH, MAX_WIDTH + 1}} \cup {<<120>>}
HeightToks ==
    {ToDec(n) : n \in (0..MaxH) \cup {MAX_HEIGHT + 1}} \cup {<<45, 49>>}
MaxToks == {ToDec(n) : n \in MaxVals \cup {MAX_COLOR_VALUE + 1}}
Seps == {<<10>>, <<32>>, <<>>}

Header(mg, wt, ht, mt, sep) ==
    mg \o <<10>> \o wt \o <<32>> \o ht \o <<10>> \o mt \o sep

ValidHeaders ==
    {<<mg, Header(mg, ToDec(wv), ToDec(hv), ToDec(mv), sep)>> :
        mg \in {MagicP3, MagicP6}, wv \in 0..MaxW, hv \in 0..MaxH, mv \in MaxVals, sep \in Seps}

AllHeaders ==
    {<<mg, Header(mg, wt, ht, mt, <<10>>)>> :
        mg \in MagicToks, wt \in WidthToks, ht \in HeightToks,
        mt \in MaxToks}

\* P3 payload tokens (each followed by a space), in pairs to alternate
P3Tok(n) == ToDec(n) \o <<32>>
P3Pairs ==
    {<<P3Tok(0), P3Tok(0)>>, <<P3Tok(100), P3Tok(101)>>,
     <<P3Tok(101), P3Tok(100)>>, <<P3Tok(255), P3Tok(256)>>,
     <<P3Tok(256), P3Tok(0)>>, <<P3Tok(0), P3Tok(65536)>>,
     <<P3Tok(65535), P3Tok(65535)>>, <<P3Tok(0), <<45, 49, 32>>>>,
     <<<<45, 49, 32>>, P3Tok(0)>>, <<P3Tok(1), <<120, 32>>>>,
     <<<<55>>, <<55>>>>}

\* P6 payload bytes, in pairs to alternate
P6Pairs ==
    {<<<<0>>, <<0>>>>, <<<<1>>, <<0>>>>, <<<<1>>, <<1>>>>, <<<<0>>, <<100>>>>,
     <<<<100>>, <<100>>>>, <<<<100>>, <<101>>>>, <<<<101>>, <<100>>>>,
     <<<<255>>, <<255>>>>, <<<<0>>, <<255>>>>, <<<<10>>, <<1>>>>,
     <<<<1>>, <<10>>>>}

Payloads(mg, most) ==
    {Alt(pr[1], pr[2], n) :
        pr \in (IF mg = MagicP6 THEN P6Pairs ELSE P3Pairs), n \in 0..most}

Inputs ==
    {<<>>}
    \cup UNION {{hd[2] \o pl : pl \in Payloads(hd[1], MaxChunks)} :
                    hd \in ValidHeaders}
    \cup {hd[2] \o pl : hd \in AllHeaders, pl \in {<<>>, <<49, 32>>}}

----------------------------------------------------------------------------
(* The specification of main                                               *)

Init ==
    /\ \E buf \in Inputs : rd = read_ppm_entry(buf)
    /\ pc = "read_ppm"
    /\ ppm = Unexpected("")
    /\ orig = DefaultPPM
    /\ cout = <<>>
    /\ printed = <<>>
    /\ status = -1
    /\ calls = <<"read_ppm">>

Next ==
    \/ ReadMagic \/ ReadWidth \/ ReadHeight \/ ReadMax
    \/ ReadP3 \/ ReadIgnore \/ ReadP6_8 \/ ReadP6_16
    \/ MainRead \/ MainError \/ MainOk \/ MainInvert \/ MainOutPpm
    \/ MainReturn

Spec == Init /\ [][Next]_vars

----------------------------------------------------------------------------
(* The codec exercised on images: invert applied twice, and out_ppm        *)
(* followed by read_ppm on the bytes written                               *)

SampleVals == {0, 1, 9, 32, 49, 100, 255, 256, 65535}

\* the images that satisfy the four invariants of the data model, their
\* samples alternating between two values
ImageOf(mg, wv, hv, mv, a, b) ==
    [m_magic |-> mg, m_width |-> wv, m_height |-> hv, m_max |-> mv,
     m_data |-> [k \in 1..(wv * hv * 3) |-> IF k % 2 = 1 THEN a ELSE b]]

Images ==
    UNION {{ImageOf(mg, wv, hv, mv, a, b) :
                mg \in {"P3", "P6"}, wv \in 0..MaxW, hv \in 0..MaxH,
                a \in {x \in SampleVals : x <= mv},
                b \in {x \in SampleVals : x <= mv}} : mv \in MaxVals}

CodecInit ==
    /\ \E img \in Images : ppm = Expected(img) /\ orig = img
    /\ rd = read_ppm_idle
    /\ pc = "codec"
    /\ cout = <<>>
    /\ printed = <<>>
    /\ status = -1
    /\ calls = <<>>

\* img.invert(), a first and a second time
CodecInvert ==
    /\ pc \in {"codec", "inverted"}
    /\ ppm' = Expected(invert(ppm.value))
    /\ calls' = Append(calls, "invert")
    /\ pc' = IF pc = "codec" THEN "inverted" ELSE "inverted_twice"
    /\ UNCHANGED <<rd, orig, cout, printed, status>>

\* img.out_ppm(os)
CodecOutPpm ==
    /\ pc = "codec"
    /\ cout' = cout \o out_ppm(ppm.value)
    /\ calls' = Append(calls, "out_ppm")
    /\ pc' = "written"
    /\ UNCHANGED <<rd, ppm, orig, printed, status>>

\* read_ppm(is) is called on the bytes written
CodecCallRead ==
    /\ pc = "written"
    /\ rd' = read_ppm_entry(cout)
    /\ calls' = Append(calls, "read_ppm")
    /\ pc' = "read_back"
    /\ UNCHANGED <<ppm, orig, cout, printed, status>>

\* the call returns
CodecRead ==
    /\ pc = "read_back"
    /\ Returned(rd)
    /\ ppm' = ReturnValue(rd)
    /\ pc' = "decoded"
    /\ UNCHANGED <<rd, orig, cout, printed, status, calls>>

CodecNext ==
    \/ CodecInvert \/ CodecOutPpm \/ CodecCallRead \/ CodecRead
    \/ ReadMagic \/ ReadWidth \/ ReadHeight \/ ReadMax
    \/ ReadP3 \/ ReadIgnore \/ ReadP6_8 \/ ReadP6_16

SpecCodec == CodecInit /\ [][CodecNext]_vars

----------------------------------------------------------------------------
(* What the claims speak of                                                *)

\* the four header extractions of a stream, each from where the one before
\* it stopped, and which of the four header checks the stream violates
HeaderOf(buf) ==
    LET xm == ExtractString(buf, 1)
        xw == ExtractUnsigned(buf, xm.pos)
        xh == ExtractUnsigned(buf, xw.pos)
        xx == ExtractUnsigned(buf, xh.pos)
        mbad == ~xm.ok \/ xm.val \notin {<<80, 51>>, <<80, 54>>}
        wbad == ~xw.ok \/ xw.val > 1920
        hbad == ~xh.ok \/ xh.val > 1080
        xbad == ~xx.ok \/ xx.val > 65536
    IN  [magic |-> xm, width |-> xw, height |-> xh, max |-> xx,
         magic_bad |-> mbad, width_bad |-> wbad, height_bad |-> hbad,
         max_bad |-> xbad,
         ok |-> ~mbad /\ ~wbad /\ ~hbad /\ ~xbad]

\* the number of samples the valid header hd asks for
Wanted(hd) == hd.width.val * hd.height.val * 3

EofErrors == {ErrP3Eof, ErrP6Eof8, ErrP6Eof16}
RangeErrors == {ErrP3Range, ErrP6Range}

\* the integer tokens a P3 stream supplies from position p on
RECURSIVE P3Tokens(_, _)
P3Tokens(buf, p) ==
    LET x == ExtractInt(buf, p)
    IN  IF x.ok THEN <<x.val>> \o P3Tokens(buf, x.pos) ELSE <<>>

\* the number of samples a stream with the valid header hd supplies: the
\* integer tokens after the header (P3), the whole samples in the bytes
\* after the one byte that follows the header (P6)
Supplied(buf, hd) ==
    IF hd.magic.val = <<80, 51>>
    THEN Len(P3Tokens(buf, hd.max.pos))
    ELSE LET bytes == IF Len(buf) > hd.max.pos
                      THEN Len(buf) - hd.max.pos ELSE 0
         IN  bytes \div (IF hd.max.val <= 255 THEN 1 ELSE 2)

\* the streams that are the bytes consumed so far, the byte after them,
\* and then other bytes
OtherTails == {<<>>, <<55>>, <<32, 49, 10, 0>>, <<255, 10, 48>>}

----------------------------------------------------------------------------
(* The claims                                                              *)

\* C1: every image a successful read_ppm returns has all its samples in
\* 0..max_value (whichever payload branch decoded them).
C1_SamplesInRange ==
    rd.pc = "ret_ok" =>
        \A k \in 1..Len(rd.img.m_data) :
            0 <= rd.img.m_data[k] /\ rd.img.m_data[k] <= rd.img.m_max

\* C2: read_ppm reports the error of the earliest violated check in the
\* order magic, width, height, max value, payload, having consumed nothing
\* beyond the token of that check, and an error carries no image.
C2_FirstViolatedCheck ==
    /\ Returned(rd) =>
        LET hd == HeaderOf(rd.buf)
        IN  /\ hd.magic_bad =>
                /\ rd.pc = "ret_err" /\ rd.err = ErrMagic
                /\ rd.pos <= hd.magic.pos
            /\ ~hd.magic_bad /\ hd.width_bad =>
                /\ rd.pc = "ret_err" /\ rd.err = ErrWidth
                /\ rd.pos <= hd.width.pos
            /\ ~hd.magic_bad /\ ~hd.width_bad /\ hd.height_bad =>
                /\ rd.pc = "ret_err" /\ rd.err = ErrHeight
                /\ rd.pos <= hd.height.pos
            /\ ~hd.magic_bad /\ ~hd.width_bad /\ ~hd.height_bad
                    /\ hd.max_bad =>
                /\ rd.pc = "ret_err" /\ rd.err = ErrMax
                /\ rd.pos <= hd.max.pos
            /\ hd.ok /\ rd.pc = "ret_err" =>
                rd.err \in EofErrors \cup RangeErrors
            /\ rd.pc = "ret_err" =>
                /\ ReturnValue(rd) = Unexpected(rd.err)
                /\ "value" \notin DOMAIN ReturnValue(rd)
    /\ pc \in {"check", "exit"} /\ rd.pc = "ret_err" =>
        ~ppm.has_value /\ ppm = Unexpected(rd.err)

\* C2's case: a stream that violates the width check (1921) and the height
\* check as well has been rejected.
C2_Witness ==
    /\ rd.pc = "ret_err"
    /\ HeaderOf(rd.buf).width.val = 1921
    /\ HeaderOf(rd.buf).height_bad
    /\ ~HeaderOf(rd.buf).magic_bad

\* C3: read_ppm on the bytes out_ppm wrote for an image that satisfies the
\* invariants succeeds and returns that image.
C3_RoundTrip ==
    pc = "decoded" => ppm.has_value /\ ppm.value = orig

\* the decimal text of samples, sep between them
RECURSIVE Decimal(_, _)
Decimal(data, sep) ==
    IF data = <<>> THEN <<>>
    ELSE IF Len(data) = 1 THEN ToDec(Head(data))
    ELSE ToDec(Head(data)) \o sep \o Decimal(Tail(data), sep)

\* what out_ppm wrote after the header
WrittenPayload ==
    SubSeq(cout, Len(out_header(orig)) + 1, Len(cout))

\* C4: for a P3 image out_ppm writes the samples as decimal text (with no
\* separator, or with one white-space separator, also after the last one).
C4_AsciiPayload ==
    pc = "written" /\ orig.m_magic = "P3" =>
        \E sep \in {<<>>, <<32>>, <<10>>} :
            WrittenPayload \in
                {Decimal(orig.m_data, sep), Decimal(orig.m_data, sep) \o sep}

\* C5: for a P6 stream read_ppm discards exactly one byte after the max
\* value token: the payload starts one byte after the header.
C5_SkipsOneByte ==
    rd.pc \in {"p6_8", "p6_16"} /\ rd.i = 0 =>
        LET after == HeaderOf(rd.buf).max.pos
        IN  after <= Len(rd.buf) => rd.pos = after + 1

\* C6: invert replaces each sample s of an image that satisfies the
\* invariants by max_value - s exactly, which is in 0..max_value.
C6_InvertExact ==
    pc = "inverted" =>
        \A k \in 1..Len(orig.m_data) :
            /\ ppm.value.m_data[k] = orig.m_max - orig.m_data[k]
            /\ ppm.value.m_data[k] \in 0..orig.m_max

\* C7: invert applied twice to an image that satisfies the invariants
\* gives back the image: variant, width, height, max_value and samples.
C7_InvertSelfInverse ==
    pc = "inverted_twice" => ppm.has_value /\ ppm.value = orig

\* C7's case: an image with max_value 65536 and a first sample 0, whose
\* first inversion does not fit in 16 bits, has been inverted twice.
C7_Witness ==
    /\ pc = "inverted_twice"
    /\ orig.m_max = 65536
    /\ Len(orig.m_data) > 0
    /\ orig.m_data[1] = 0
    /\ calls = <<"invert", "invert">>

\* C8: for a P6 image out_ppm writes one byte per sample when max_value <=
\* 255 and two bytes, high byte first, when max_value > 255, so width *
\* height * 3 or twice as many payload bytes; read_ppm takes the same
\* number of bytes per sample and returns the samples written.
C8_BinaryWidth ==
    pc \in {"written", "read_back", "decoded"} /\ orig.m_magic = "P6" =>
        LET n == orig.m_width * orig.m_height * 3
            hdr == Len(cout) - Len(WrittenPayload)
        IN  /\ orig.m_max <= 255 =>
                /\ Len(WrittenPayload) = n
                /\ \A k \in 1..n : WrittenPayload[k] = orig.m_data[k]
            /\ orig.m_max > 255 =>
                /\ Len(WrittenPayload) = 2 * n
                /\ \A k \in 1..n :
                    /\ WrittenPayload[2 * k - 1] = orig.m_data[k] \div 256
                    /\ WrittenPayload[2 * k] = orig.m_data[k] % 256
            /\ pc = "decoded" =>
                /\ rd.pc = "ret_ok"
                /\ rd.img.m_data = orig.m_data
                /\ rd.pos - 1 = hdr + (IF orig.m_max <= 255 THEN n ELSE 2 * n)

\* C8's case: a P6 image with max_value 256 and samples below 256 has been
\* written with two bytes per sample and read back.
C8_Witness ==
    /\ pc = "decoded"
    /\ orig.m_magic = "P6"
    /\ orig.m_max = 256
    /\ Len(orig.m_data) = 3
    /\ orig.m_data[1] = 1
    /\ Len(WrittenPayload) = 6

\* the parts of C9 that stand as claimed: a returned image holds exactly
\* width * height * 3 samples, and the bytes after those read_ppm consumed
\* and the byte that follows them do not change what it returns
C9_CountAndTrailing ==
    rd.pc = "ret_ok" =>
        LET hd == HeaderOf(rd.buf)
        IN  /\ Len(rd.img.m_data) = rd.img.m_width * rd.img.m_height * 3
            /\ rd.img.m_width = hd.width.val
            /\ rd.img.m_height = hd.height.val
            /\ rd.pos <= Len(rd.buf) =>
                \A t \in OtherTails :
                    read_ppm(SubSeq(rd.buf, 1, rd.pos) \o t) = ReturnValue(rd)

\* a stream with a valid header that supplies fewer samples than width *
\* height * 3 has been read
ReadShortPayload ==
    /\ Returned(rd)
    /\ LET hd == HeaderOf(rd.buf)
       IN  hd.ok /\ Supplied(rd.buf, hd) < Wanted(hd)

LastSampleOutOfRange ==
    LET hd == HeaderOf(rd.buf)
        toks == P3Tokens(rd.buf, hd.max.pos)
    IN  IF rd.err = ErrP3Range
        THEN \E k \in 1..Len(toks) : toks[k] < 0 \/ toks[k] > hd.max.val
        ELSE /\ rd.pos > 2
             /\ rd.buf[rd.pos - 2] * 256 + rd.buf[rd.pos - 1] > hd.max.val

C10_MainOrder ==
    /\ \E n \in 1..3 : calls = SubSeq(<<"read_ppm", "invert", "out_ppm">>, 1, n)
    /\ cout # <<>> =>
        /\ calls = <<"read_ppm", "invert", "out_ppm">>
        /\ rd.pc = "ret_ok"
        /\ ppm.has_value
        /\ printed = <<>>
    /\ status # -1 <=> pc = "exit"
    /\ pc = "exit" /\ rd.pc = "ret_err" =>
        /\ printed = <<<<"[ERR] ", rd.err>>>>
        /\ cout = <<>>
        /\ calls = <<"read_ppm">>
        /\ status = 1
    /\ pc = "exit" /\ rd.pc = "ret_ok" =>
        /\ status = 0
        /\ printed = <<>>
        /\ cout # <<>>
    /\ rd.pc = "ret_err" => ~("invert" \in {calls[k] : k \in 1..Len(calls)})

\* C10's case: a run whose read_ppm failed has ended.
C10_Witness ==
    /\ pc = "exit"
    /\ rd.pc = "ret_err"
    /\ status = 1
    /\ Len(printed) = 1

====
